---- MODULE Spec2Model ----
(***************************************************************************)
(* Bandwidth throttle group: the integer partitioner, the even-distribution *)
(* index mapper, the throttle (channel) and the group scheduler.           *)
(*                                                                         *)
(* Time is counted in milliseconds, as Date.now() does.  Byte quantities   *)
(* that the code multiplies by the delay multiplier (a fraction            *)
(* elapsedTime / tickDurationMs) are kept as exact multiples of            *)
(* 1/MsPerSecond byte, so that no rounding is introduced by the model.     *)
(***************************************************************************)
EXTENDS Integers, Sequences, FiniteSets, TLC

\* ---------------------------------------------------------------- bounds
MaxValue == 30
MaxPartsCount == 30
MaxThrottles == 3
MaxContentLength == 2
MaxTime == 1400
MaxCalls == 4
MaxAttachedCalls == 3
MaxData == 4
MaxChunks == 3
MaxPLength == 3
MaxReads == 6

\* ------------------------------------------------------ program constants
MsPerSecond == 1000
Infinity == 1000000
ClockDivisor == 5
DefaultTicksPerSecond == 40

NoTimer == 0
TimerId == 1

VARIABLES
    partition,          \* the partition a caller of the partitioner is reading
    config,             \* Config: bytesPerSecond, ticksPerSecond
    throttles,          \* the BandwidthThrottle instances, by identity
    inFlightRequests,   \* BandwidthThrottleGroup.inFlightRequests
    bandwidthThrottles, \* BandwidthThrottleGroup.bandwidthThrottles
    clockIntervalId,    \* BandwidthThrottleGroup.clockIntervalId
    lastTickTime,       \* BandwidthThrottleGroup.lastTickTime
    tickIndex,          \* BandwidthThrottleGroup.tickIndex
    secondIndex,        \* BandwidthThrottleGroup.secondIndex
    intervals,          \* number of setInterval timers the runtime is running
    intervalMs,         \* delay the running setInterval was started with
    now,                \* Date.now()
    calls,              \* number of calls made to the public surface
    lastTick,           \* what the tick processed by the last step dispatched
    stableLog,          \* allowances of the last on-time ticks of a stable set
    rotationLog,        \* the same over as many seconds as channels in flight
    emitLog,            \* bytes pushed by ticks during the last second
    aborted,            \* the throttles abort() was called on
    groupDestroyed,     \* the throttles attached when group.destroy() was called
    timerBeat,          \* flips at each callback of the timer that runs for ever
    denoReader          \* a readerToDenoReader(reader, contentLength) and its reads

\* ---------------------------------------------------------------- helpers
Min(a, b) == IF a <= b THEN a ELSE b
Max(a, b) == IF a >= b THEN a ELSE b
Ceil(a, b) == (a + b - 1) \div b

RECURSIVE SumSeq(_)
SumSeq(s) == IF s = <<>> THEN 0 ELSE Head(s) + SumSeq(Tail(s))

\* ------------------------------------------------- Integer Partitioner
\* A set is a tuple <<count, value>>.
divideIntegerIntoWholeParts_spread(value, partsCount) ==
    LET d == value \div partsCount
        r == value % partsCount
    IN  << <<partsCount - r, d>>, <<r, IF r > 0 THEN d + 2 ELSE 0>> >>

divideIntegerIntoWholeParts(value, partsCount) ==
    LET d == value \div partsCount
        r == value % partsCount
    IN  << <<partsCount - r, d>>, <<r, IF r > 0 THEN d + 1 ELSE 0>> >>

RECURSIVE getFrequencyPerDivision(_, _, _)
getFrequencyPerDivision(slotsAvailable, slotsFilledGoal, frequencies) ==
    LET normalFrequency == Ceil(slotsAvailable, slotsFilledGoal)
        actualSlotsFilled == Ceil(slotsAvailable, normalFrequency)
        pushed == Append(frequencies, normalFrequency)
        remainder == slotsFilledGoal - actualSlotsFilled
    IN  IF remainder = 0
        THEN pushed
        ELSE getFrequencyPerDivision(slotsAvailable - slotsFilledGoal,
                                     remainder, pushed)

\* The for-loop of evenlyDistributeSets over the frequencies, from position k.
RECURSIVE lookupFrequencies(_, _, _, _, _, _)
lookupFrequencies(frequencies, k, indexReduction, adjustedLookupIndex, lessValue, moreValue) ==
    IF k > Len(frequencies)
    THEN moreValue
    ELSE LET adjusted == adjustedLookupIndex - indexReduction
             frequency == frequencies[k]
         IN  IF adjusted % frequency = 0
             THEN lessValue
             ELSE lookupFrequencies(frequencies, k + 1,
                                    indexReduction + (adjusted \div frequency),
                                    adjusted, lessValue, moreValue)

evenlyDistributeSets(setA, setB, lookupIndex) ==
    LET lessCommonSet == IF setA[1] <= setB[1] THEN setA ELSE setB
        moreCommonSet == IF setA[1] <= setB[1] THEN setB ELSE setA
        totalLength == setA[1] + setB[1]
    IN  IF lessCommonSet[1] = 0
        THEN moreCommonSet[2]
        ELSE lookupFrequencies(
                 getFrequencyPerDivision(totalLength, lessCommonSet[1], <<>>),
                 1, 0, lookupIndex, lessCommonSet[2], moreCommonSet[2])

getPartitionedIntegerPartAtIndex(value, partsCount, index) ==
    LET sets == divideIntegerIntoWholeParts(value, partsCount)
    IN  evenlyDistributeSets(sets[1], sets[2], index)

\* ------------------------------------------------------------- Config
\* new Config(): the field initialisers
DefaultConfig ==
    [bytesPerSecond |-> Infinity, ticksPerSecond |-> DefaultTicksPerSecond]

\* Object.assign(target, source): options are records that hold the given
\* fields only.
assign(target, source) ==
    [field \in DOMAIN target |->
        IF field \in DOMAIN source THEN source[field] ELSE target[field]]

isThrottled(cfg) == cfg.bytesPerSecond < Infinity

\* tickDurationMs = 1000 / ticksPerSecond is a fraction in general; the code
\* only compares with it and divides by it, which is done here exactly.
elapsedIsLessThanTickDurationMs(cfg, elapsedTime) ==
    elapsedTime * cfg.ticksPerSecond < MsPerSecond

delayMultiplier_none(cfg, elapsedTime) == MsPerSecond

\* Math.max(1, elapsedTime / tickDurationMs), in units of 1/MsPerSecond.
delayMultiplier(cfg, elapsedTime) ==
    Max(MsPerSecond, elapsedTime * cfg.ticksPerSecond)

\* -------------------------------------------------- JavaScript arrays
\* Array.prototype.indexOf: the 0-based position, -1 when absent.
indexOf(array, item) ==
    IF \E k \in 1..Len(array) : array[k] = item
    THEN (CHOOSE k \in 1..Len(array) :
              array[k] = item /\ \A j \in 1..(k - 1) : array[j] # item) - 1
    ELSE -1

\* Array.prototype.splice(start, 1): a negative start counts from the end.
spliceOne(array, start) ==
    LET from == IF start < 0 THEN Max(Len(array) + start, 0)
                ELSE Min(start, Len(array))
    IN  IF from >= Len(array)
        THEN array
        ELSE SubSeq(array, 1, from) \o SubSeq(array, from + 2, Len(array))

\* --------------------------------------------------------- the program
\* The operations below take the program state s (a record of the fields of
\* the group, its throttles and the runtime's timers) and return the state
\* after the call.  s.pushes and s.calls collect what a step pushed
\* downstream and which process() calls the scheduler made.
Throttles == 1..MaxThrottles

NoThrottle ==
    [created |-> FALSE, contentLength |-> 0, isInFlight |-> FALSE,
     pendingBytesCount |-> 0, pendingBytesReadIndex |-> 0,
     destroyed |-> FALSE, ended |-> FALSE, doneResolved |-> FALSE]

\* bytes pushed downstream so far: subarray() truncates a fractional index
emitted(t) == t.pendingBytesReadIndex \div MsPerSecond

isTicking(s) == s.clockIntervalId # NoTimer
hasTicked(s) == s.lastTickTime > -1

\* setInterval runs a delay that is below 1 ms, or not finite, as 1 ms.
startClock(s) ==
    [s EXCEPT !.intervals = @ + 1,
              !.intervalMs =
                  IF s.config.ticksPerSecond > 0
                  THEN Max(1, (MsPerSecond \div s.config.ticksPerSecond)
                                  \div ClockDivisor)
                  ELSE 1,
              !.clockIntervalId = TimerId]

stopClock_keepsCounters(s) ==
    [s EXCEPT !.intervals = IF s.clockIntervalId # NoTimer THEN @ - 1 ELSE @,
              !.clockIntervalId = NoTimer]

stopClock(s) ==
    [s EXCEPT !.intervals = IF s.clockIntervalId # NoTimer THEN @ - 1 ELSE @,
              !.clockIntervalId = NoTimer,
              !.tickIndex = 0,
              !.secondIndex = 0]

handleRequestStart_alwaysStarts(s, bandwidthThrottle) ==
    startClock([s EXCEPT !.inFlightRequests = Append(@, bandwidthThrottle)])

handleRequestStart(s, bandwidthThrottle) ==
    LET pushed == [s EXCEPT !.inFlightRequests = Append(@, bandwidthThrottle)]
    IN  IF pushed.clockIntervalId # NoTimer
        THEN pushed
        ELSE startClock(pushed)

handleRequestStop_keepsRequest(s, bandwidthThrottle) ==
    IF Len(s.inFlightRequests) <= 1 THEN stopClock(s) ELSE s

handleRequestStop(s, bandwidthThrottle) ==
    LET spliced == [s EXCEPT !.inFlightRequests =
                        spliceOne(@, indexOf(@, bandwidthThrottle))]
    IN  IF Len(spliced.inFlightRequests) = 0
        THEN stopClock(spliced)
        ELSE spliced

handleRequestDestroy(s, bandwidthThrottle) ==
    [s EXCEPT !.bandwidthThrottles =
         spliceOne(@, indexOf(@, bandwidthThrottle))]

\* BandwidthThrottle.destroy(): tells the group, then destroys the stream.
destroy(s, c) ==
    [handleRequestDestroy(s, c) EXCEPT !.throttles[c].destroyed = TRUE]

abort_withoutStop(s, c) == destroy(s, c)

abort(s, c) == destroy(handleRequestStop(s, c), c)

process_uncapped(s, c, maxBytesToProcess) ==
    LET t == s.throttles[c]
        startReadIndex == t.pendingBytesReadIndex
        endReadIndex ==
            IF maxBytesToProcess = Infinity
            THEN t.pendingBytesCount * MsPerSecond
            ELSE t.pendingBytesReadIndex + maxBytesToProcess
        pushed ==
            IF endReadIndex - startReadIndex > 0
            THEN [s EXCEPT
                     !.throttles[c].pendingBytesReadIndex = endReadIndex,
                     !.pushes = Append(@,
                         [ch |-> c,
                          bytes |-> (endReadIndex \div MsPerSecond)
                                       - (startReadIndex \div MsPerSecond)])]
            ELSE s
    IN  IF \/ pushed.throttles[c].pendingBytesReadIndex
                  < pushed.throttles[c].pendingBytesCount * MsPerSecond
           \/ ~isThrottled(pushed.config)
        THEN pushed
        ELSE [destroy(handleRequestStop(
                          [pushed EXCEPT !.throttles[c].doneResolved = TRUE],
                          c), c)
                  EXCEPT !.throttles[c].isInFlight = FALSE]

\* BandwidthThrottle.process(maxBytesToProcess); the maximum is given in
\* units of 1/MsPerSecond byte, Infinity meaning no maximum.
process(s, c, maxBytesToProcess) ==
    LET t == s.throttles[c]
        startReadIndex == t.pendingBytesReadIndex
        endReadIndex ==
            IF maxBytesToProcess = Infinity
            THEN t.pendingBytesCount * MsPerSecond
            ELSE Min(t.pendingBytesReadIndex + maxBytesToProcess,
                     t.pendingBytesCount * MsPerSecond)
        bytesToPushLength == endReadIndex - startReadIndex
        pushed ==
            IF bytesToPushLength > 0
            THEN [s EXCEPT
                     !.throttles[c].pendingBytesReadIndex = endReadIndex,
                     !.pushes = Append(@,
                         [ch |-> c,
                          bytes |-> (endReadIndex \div MsPerSecond)
                                       - (startReadIndex \div MsPerSecond)])]
            ELSE s
    IN  IF \/ pushed.throttles[c].pendingBytesReadIndex
                  < pushed.throttles[c].pendingBytesCount * MsPerSecond
           \/ ~isThrottled(pushed.config)
        THEN pushed
        ELSE [destroy(handleRequestStop(
                          [pushed EXCEPT !.throttles[c].doneResolved = TRUE],
                          c), c)
                  EXCEPT !.throttles[c].isInFlight = FALSE]

transform_startsEveryChunk(s, c, length) ==
    LET started == [handleRequestStart(s, c)
                        EXCEPT !.throttles[c].isInFlight = TRUE]
        queued == [started EXCEPT !.throttles[c].pendingBytesCount = @ + length]
    IN  IF ~isThrottled(queued.config)
        THEN process(queued, c, Infinity)
        ELSE queued

\* BandwidthThrottle.transform(chunk), chunk.length = length
transform_queueOnly(s, c, length) ==
    LET started ==
            IF ~s.throttles[c].isInFlight
            THEN [handleRequestStart(s, c)
                      EXCEPT !.throttles[c].isInFlight = TRUE]
            ELSE s
    IN  [started EXCEPT !.throttles[c].pendingBytesCount = @ + length]

transform(s, c, length) ==
    LET started ==
            IF ~s.throttles[c].isInFlight
            THEN [handleRequestStart(s, c)
                      EXCEPT !.throttles[c].isInFlight = TRUE]
            ELSE s
        queued == [started EXCEPT !.throttles[c].pendingBytesCount = @ + length]
    IN  IF ~isThrottled(queued.config)
        THEN process(queued, c, Infinity)
        ELSE queued

\* BandwidthThrottle.flush(), called once when the input has ended
flush(s, c) ==
    LET ended == [s EXCEPT !.throttles[c].ended = TRUE]
    IN  IF ended.throttles[c].pendingBytesCount = 0
        THEN ended
        ELSE IF ~isThrottled(ended.config)
        THEN [destroy(handleRequestStop(ended, c), c)
                  EXCEPT !.throttles[c].isInFlight = FALSE]
        ELSE ended

\* BandwidthThrottleGroup.createBandwidthThrottle(contentLength)
createBandwidthThrottle(s, c, contentLength) ==
    [s EXCEPT !.throttles[c] =
                  [NoThrottle EXCEPT !.created = TRUE,
                                     !.contentLength = contentLength],
              !.bandwidthThrottles = Append(@, c)]

\* BandwidthThrottleGroup.destroy()
RECURSIVE groupDestroy(_)
groupDestroy(s) ==
    IF Len(s.bandwidthThrottles) = 0
    THEN s
    ELSE LET popped == s.bandwidthThrottles[Len(s.bandwidthThrottles)]
             rest == [s EXCEPT !.bandwidthThrottles =
                          SubSeq(@, 1, Len(@) - 1)]
         IN  groupDestroy(destroy(rest, popped))

\* BandwidthThrottleGroup.configure(options)
configure_ignored(s, options) == s

configure_replacesConfig(s, options) ==
    [s EXCEPT !.config = assign(DefaultConfig, options)]

configure(s, options) == [s EXCEPT !.config = assign(@, options)]

\* The partitioner as the scheduler calls it.  An unbounded value makes
\* every intermediate of the partitioner NaN, and the part it returns is
\* the value of the second set, 0.
partAt(value, partsCount, index) ==
    IF value = Infinity
    THEN 0
    ELSE getPartitionedIntegerPartAtIndex(value, partsCount, index)

bytesPerRequestPerTick_noTickSplit(s, i, period) ==
    partAt(s.config.bytesPerSecond, Len(s.inFlightRequests),
           (i + period) % Len(s.inFlightRequests))

\* The two partitioning steps of the loop body of processInFlightRequests,
\* for the request at position i (0-based).
bytesPerRequestPerTick_splitsByPosition(s, i, period) ==
    LET rotatedIndex == (i + period) % (i + 1)
        bytesPerRequestPerSecond ==
            partAt(s.config.bytesPerSecond, i + 1, rotatedIndex)
    IN  partAt(bytesPerRequestPerSecond, s.config.ticksPerSecond, s.tickIndex)

bytesPerRequestPerTick(s, i, period) ==
    LET currentInFlightRequestsCount == Len(s.inFlightRequests)
        rotatedIndex == (i + period) % currentInFlightRequestsCount
        bytesPerRequestPerSecond ==
            partAt(s.config.bytesPerSecond, Len(s.inFlightRequests),
                   rotatedIndex)
    IN  partAt(bytesPerRequestPerSecond, s.config.ticksPerSecond, s.tickIndex)

\* What a call process(maxBytesToProcess) on the channel c finds and does:
\* the bytes that are buffered and not yet pushed, the length of the chunk
\* that the call pushes, and how far the call moves pendingBytesReadIndex
\* (in units of 1/MsPerSecond byte).
pendingOf(s, c) == s.throttles[c].pendingBytesCount - emitted(s.throttles[c])

pushedBy(s, c, maxBytesToProcess) ==
    emitted(process(s, c, maxBytesToProcess).throttles[c])
        - emitted(s.throttles[c])

advanceBy(s, c, maxBytesToProcess) ==
    process(s, c, maxBytesToProcess).throttles[c].pendingBytesReadIndex
        - s.throttles[c].pendingBytesReadIndex

RECURSIVE processLoop_alwaysAdvances(_, _, _, _)
processLoop_alwaysAdvances(s, i, period, multiplier) ==
    IF i >= Len(s.inFlightRequests)
    THEN s
    ELSE LET bandwidthThrottle == s.inFlightRequests[i + 1]
             bytes == bytesPerRequestPerTick(s, i, period)
             called == [s EXCEPT !.calls = Append(@,
                            [ch |-> bandwidthThrottle, bytes |-> bytes,
                             count |-> Len(s.inFlightRequests),
                             maxBytesToProcess |-> bytes * multiplier,
                             pending |-> pendingOf(s, bandwidthThrottle),
                             pushed |-> pushedBy(s, bandwidthThrottle,
                                                 bytes * multiplier),
                             advance |-> advanceBy(s, bandwidthThrottle,
                                                   bytes * multiplier)])]
         IN  processLoop_alwaysAdvances(
                 process(called, bandwidthThrottle, bytes * multiplier),
                 i + 1, period, multiplier)

\* The for-loop of processInFlightRequests, from position i.
RECURSIVE processLoop(_, _, _, _)
processLoop(s, i, period, multiplier) ==
    IF i >= Len(s.inFlightRequests)
    THEN s
    ELSE LET currentInFlightRequestsCount == Len(s.inFlightRequests)
             bandwidthThrottle == s.inFlightRequests[i + 1]
             bytes == bytesPerRequestPerTick(s, i, period)
             called == [s EXCEPT !.calls = Append(@,
                            [ch |-> bandwidthThrottle, bytes |-> bytes,
                             count |-> currentInFlightRequestsCount,
                             maxBytesToProcess |-> bytes * multiplier,
                             pending |-> pendingOf(s, bandwidthThrottle),
                             pushed |-> pushedBy(s, bandwidthThrottle,
                                                 bytes * multiplier),
                             advance |-> advanceBy(s, bandwidthThrottle,
                                                   bytes * multiplier)])]
             processed == process(called, bandwidthThrottle,
                                  bytes * multiplier)
         IN  processLoop(processed,
                         IF Len(processed.inFlightRequests)
                                < currentInFlightRequestsCount
                         THEN i ELSE i + 1,
                         period, multiplier)

\* BandwidthThrottleGroup.processInFlightRequests(), with Date.now() = time
elapsedTimeAt(s, time) == IF hasTicked(s) THEN time - s.lastTickTime ELSE 0

isDue_always(s, time) == TRUE

isDue(s, time) ==
    ~ ( /\ isThrottled(s.config)
        /\ hasTicked(s)
        /\ elapsedIsLessThanTickDurationMs(s.config, elapsedTimeAt(s, time)) )

processInFlightRequests_keepsSecondIndex(s, time) ==
    LET elapsedTime == elapsedTimeAt(s, time)
        multiplier == delayMultiplier(s.config, elapsedTime)
        period == IF Len(s.inFlightRequests) = 0 THEN 0
                  ELSE s.secondIndex % Len(s.inFlightRequests)
        looped == processLoop(s, 0, period, multiplier)
        ticked == [looped EXCEPT !.tickIndex = @ + 1]
        wrapped == IF ticked.tickIndex = ticked.config.ticksPerSecond
                   THEN [ticked EXCEPT !.tickIndex = 0]
                   ELSE ticked
    IN  IF ~isDue(s, time)
        THEN s
        ELSE IF ~isTicking(looped)
        THEN looped
        ELSE [wrapped EXCEPT !.lastTickTime =
                  IF hasTicked(wrapped) THEN @ + elapsedTime ELSE time]

processInFlightRequests(s, time) ==
    LET elapsedTime == elapsedTimeAt(s, time)
        multiplier == delayMultiplier(s.config, elapsedTime)
        period == IF Len(s.inFlightRequests) = 0 THEN 0
                  ELSE s.secondIndex % Len(s.inFlightRequests)
        looped == processLoop(s, 0, period, multiplier)
        ticked == [looped EXCEPT !.tickIndex = @ + 1]
        wrapped == IF ticked.tickIndex = ticked.config.ticksPerSecond
                   THEN [ticked EXCEPT !.tickIndex = 0, !.secondIndex = @ + 1]
                   ELSE ticked
    IN  IF ~isDue(s, time)
        THEN s
        ELSE IF ~isTicking(looped)
        THEN looped
        ELSE [wrapped EXCEPT !.lastTickTime =
                  IF hasTicked(wrapped) THEN @ + elapsedTime ELSE time]

\* ------------------------------------------------------ the state machine
Cur ==
    [config |-> config, throttles |-> throttles,
     inFlightRequests |-> inFlightRequests,
     bandwidthThrottles |-> bandwidthThrottles,
     clockIntervalId |-> clockIntervalId, lastTickTime |-> lastTickTime,
     tickIndex |-> tickIndex, secondIndex |-> secondIndex,
     intervals |-> intervals, intervalMs |-> intervalMs,
     pushes |-> <<>>, calls |-> <<>>]

Becomes(s) ==
    /\ config' = s.config
    /\ throttles' = s.throttles
    /\ inFlightRequests' = s.inFlightRequests
    /\ bandwidthThrottles' = s.bandwidthThrottles
    /\ clockIntervalId' = s.clockIntervalId
    /\ lastTickTime' = s.lastTickTime
    /\ tickIndex' = s.tickIndex
    /\ secondIndex' = s.secondIndex
    /\ intervals' = s.intervals
    /\ intervalMs' = s.intervalMs

RECURSIVE SumBytes(_)
SumBytes(records) ==
    IF records = <<>> THEN 0
    ELSE Head(records).bytes + SumBytes(Tail(records))

LastN(s, n) == IF Len(s) <= n THEN s ELSE SubSeq(s, Len(s) - n + 1, Len(s))

\* the entries of the emission log that lie within the second ending at `time`
RECURSIVE WithinLastSecond(_, _)
WithinLastSecond(log, time) ==
    IF log = <<>> THEN <<>>
    ELSE IF Head(log).time + MsPerSecond <= time
    THEN WithinLastSecond(Tail(log), time)
    ELSE log

NoTick ==
    [calls |-> <<>>, multiplier |-> MsPerSecond, tickIndex |-> 0,
     secondIndex |-> 0, config |-> [bytesPerSecond |-> Infinity,
                                    ticksPerSecond |-> 1],
     before |-> <<>>, after |-> <<>>]

\* History kept by a call to the public surface (the number of calls of a
\* run is bounded): a change of the in-flight set or of the config ends the
\* run of stable ticks, and a change of the config starts a new emission log.
HistoryOfCall(s) ==
    /\ calls < MaxCalls
    /\ calls' = calls + 1
    /\ lastTick' = NoTick
    /\ stableLog' = IF s.inFlightRequests # inFlightRequests
                       \/ s.config # config
                    THEN <<>> ELSE stableLog
    /\ rotationLog' = IF s.inFlightRequests # inFlightRequests
                         \/ s.config # config
                      THEN <<>> ELSE rotationLog
    /\ emitLog' = IF s.config # config THEN <<>> ELSE emitLog

\* The allowances of the last ticks of a stable in-flight set that were on
\* time, over as many seconds as there are channels in flight, each with the
\* tick's index within its second.
RotationOfTick(s, time) ==
    LET multiplier == delayMultiplier(config, elapsedTimeAt(Cur, time))
    IN  IF ~isDue(Cur, time) THEN rotationLog
        ELSE IF /\ isThrottled(config)
                /\ multiplier = MsPerSecond
                /\ s.inFlightRequests = inFlightRequests
                /\ inFlightRequests # <<>>
        THEN LastN(Append(rotationLog,
                          [tickIndex |-> tickIndex,
                           bytes |-> [i \in 1..Len(s.calls) |->
                                         s.calls[i].bytes]]),
                   Len(inFlightRequests) * config.ticksPerSecond)
        ELSE <<>>

\* History kept by a timer callback at `time`.
HistoryOfTick(s, time) ==
    LET processed == isDue(Cur, time)
        multiplier == delayMultiplier(config, elapsedTimeAt(Cur, time))
        stable == /\ isThrottled(config)
                  /\ multiplier = MsPerSecond
                  /\ s.inFlightRequests = inFlightRequests
                  /\ inFlightRequests # <<>>
    IN  /\ lastTick' =
               IF processed
               THEN [calls |-> s.calls, multiplier |-> multiplier,
                     tickIndex |-> tickIndex, secondIndex |-> secondIndex,
                     config |-> config, before |-> inFlightRequests,
                     after |-> s.inFlightRequests]
               ELSE NoTick
        /\ stableLog' =
               IF ~processed THEN stableLog
               ELSE IF stable
               THEN LastN(Append(stableLog,
                                 [i \in 1..Len(s.calls) |-> s.calls[i].bytes]),
                          config.ticksPerSecond)
               ELSE <<>>
        /\ rotationLog' = RotationOfTick(s, time)
        /\ emitLog' =
               WithinLastSecond(
                   IF processed /\ isThrottled(config) /\ SumBytes(s.pushes) > 0
                   THEN Append(emitLog, [time |-> time,
                                         bytes |-> SumBytes(s.pushes)])
                   ELSE emitLog,
                   time)

\* --- operations of the public surface and of the runtime
CreateBandwidthThrottle(contentLength) ==
    /\ \E c \in Throttles :
          /\ ~throttles[c].created
          /\ \A b \in 1..(c - 1) : throttles[b].created
          /\ LET s == createBandwidthThrottle(Cur, c, contentLength)
             IN  Becomes(s) /\ HistoryOfCall(s)
    /\ UNCHANGED <<partition, denoReader, timerBeat, now, aborted, groupDestroyed>>

\* throttle.write(chunk): the stream hands the chunk to transform(); a
\* destroyed or ended stream refuses the write with an error and does not
\* call transform().
writeIsRefused(s, c) == s.throttles[c].destroyed \/ s.throttles[c].ended

write(s, c, length) ==
    IF writeIsRefused(s, c) THEN s ELSE transform(s, c, length)

Write(c, length) ==
    /\ throttles[c].created
    /\ throttles[c].pendingBytesCount + length <= throttles[c].contentLength
    /\ LET s == write(Cur, c, length)
       IN  Becomes(s) /\ HistoryOfCall(s)
    /\ UNCHANGED <<partition, denoReader, timerBeat, now, aborted, groupDestroyed>>

\* throttle.end(): the stream calls flush() once, unless destroyed.
End(c) ==
    /\ throttles[c].created
    /\ ~throttles[c].destroyed
    /\ ~throttles[c].ended
    /\ LET s == flush(Cur, c)
       IN  Becomes(s) /\ HistoryOfCall(s)
    /\ UNCHANGED <<partition, denoReader, timerBeat, now, aborted, groupDestroyed>>

Abort(c) ==
    /\ throttles[c].created
    /\ LET s == abort(Cur, c)
       IN  Becomes(s) /\ HistoryOfCall(s)
    /\ aborted' = aborted \cup {c}
    /\ UNCHANGED <<partition, denoReader, timerBeat, now, groupDestroyed>>

GroupDestroy ==
    /\ LET s == groupDestroy(Cur)
       IN  Becomes(s) /\ HistoryOfCall(s)
    /\ groupDestroyed' = groupDestroyed \cup
           {c \in Throttles : throttles[c].created /\ ~throttles[c].destroyed}
    /\ UNCHANGED <<partition, denoReader, timerBeat, now, aborted>>

Configure(options) ==
    /\ LET s == configure(Cur, options)
       IN  Becomes(s) /\ HistoryOfCall(s)
    /\ UNCHANGED <<partition, denoReader, timerBeat, now, aborted, groupDestroyed>>

\* A callback of a running setInterval, `delay` ms after the previous one
\* (or after the timer was started).
TimerFire(delay) ==
    /\ intervals > 0
    /\ delay >= intervalMs
    /\ now + delay <= MaxTime
    /\ now' = now + delay
    /\ LET s == processInFlightRequests(Cur, now + delay)
       IN  Becomes(s) /\ HistoryOfTick(s, now + delay)
    /\ UNCHANGED <<partition, denoReader, timerBeat, calls, aborted, groupDestroyed>>

\* Time passes while no timer is running.
PassTime(delay) ==
    /\ intervals = 0
    /\ now + delay <= MaxTime
    /\ now' = now + delay
    /\ emitLog' = WithinLastSecond(emitLog, now + delay)
    /\ UNCHANGED <<partition, denoReader, timerBeat, calls, config, throttles,
                   inFlightRequests,
                   bandwidthThrottles, clockIntervalId, lastTickTime,
                   tickIndex, secondIndex, intervals, intervalMs, stableLog,
                   rotationLog,
                   aborted, groupDestroyed>>
    /\ lastTick' = NoTick

NoPartition == [value |-> 0, partsCount |-> 1, parts |-> <<>>]

\* -------------------------------------------------- readerToDenoReader
\* read() returning `null`
Null == -1

\* readerToDenoReader(reader, contentLength): the closure's contentLength,
\* buffer (its bytes below bufferEndIndex), bufferEndIndex and
\* bufferReadStartIndex; `reader` is the chunks that the underlying reader has
\* yet to deliver, `result` and `p` are what the last read(p) returned and
\* put into p, `pLength` is that p's length. History: `data` is all the bytes of the underlying reader,
\* `returned` the bytes of the non-null results so far, `nullReturned` tells
\* that a read has returned null, `reads` counts the reads.
readerToDenoReader(reader, contentLength, data) ==
    [contentLength |-> contentLength, reader |-> reader, buffer |-> <<>>,
     bufferEndIndex |-> 0, bufferReadStartIndex |-> 0,
     result |-> 0, p |-> <<>>, pLength |-> 0,
     data |-> data, returned |-> <<>>, nullReturned |-> FALSE, reads |-> 0]

NoReader == readerToDenoReader(<<>>, 0, <<>>)

\* `await reader.read()` and the push of its value into the buffer; at the
\* end of the underlying reader the value is undefined
pushValue_atBufferStart(r) ==
    IF r.reader = <<>> THEN r
    ELSE LET value == Head(r.reader)
         IN  [r EXCEPT !.buffer =
                           [i \in 1..(r.bufferEndIndex + Len(value)) |->
                               IF i <= Len(value) THEN value[i]
                               ELSE IF i <= Len(r.buffer) THEN r.buffer[i]
                               ELSE 0],
                       !.bufferEndIndex = @ + Len(value),
                       !.reader = Tail(@)]

pushValue(r) ==
    IF r.reader = <<>> THEN r
    ELSE [r EXCEPT !.buffer = @ \o Head(r.reader),
                   !.bufferEndIndex = @ + Len(Head(r.reader)),
                   !.reader = Tail(@)]

\* read(p), p.length = pLength
read(r, pLength) ==
    IF r.contentLength = 0 THEN [r EXCEPT !.result = Null, !.p = <<>>]
    ELSE IF r.bufferReadStartIndex > r.contentLength - 1
    THEN [r EXCEPT !.result = Null, !.p = <<>>]
    ELSE LET pushed == pushValue(r)
             bufferReadEndIndex ==
                 Min(pushed.bufferReadStartIndex + pLength,
                     pushed.bufferEndIndex)
             bufferReadView ==
                 SubSeq(pushed.buffer, pushed.bufferReadStartIndex + 1,
                        bufferReadEndIndex)
         IN  IF pushed.bufferReadStartIndex = pushed.bufferEndIndex
             THEN [pushed EXCEPT !.result = Null, !.p = <<>>]
             ELSE [pushed EXCEPT !.bufferReadStartIndex = bufferReadEndIndex,
                                 !.result = Len(bufferReadView),
                                 !.p = bufferReadView]

\* --- construction
GroupInit(options) ==
    /\ config = options
    /\ throttles = [c \in Throttles |-> NoThrottle]
    /\ inFlightRequests = <<>>
    /\ bandwidthThrottles = <<>>
    /\ clockIntervalId = NoTimer
    /\ lastTickTime = -1
    /\ tickIndex = 0
    /\ secondIndex = 0
    /\ intervals = 0
    /\ intervalMs = 0
    /\ now = 0
    /\ calls = 0
    /\ lastTick = NoTick
    /\ stableLog = <<>>
    /\ rotationLog = <<>>
    /\ emitLog = <<>>
    /\ aborted = {}
    /\ groupDestroyed = {}
    /\ timerBeat = FALSE

groupVars ==
    <<config, throttles, inFlightRequests, bandwidthThrottles,
      clockIntervalId, lastTickTime, tickIndex, secondIndex, intervals,
      intervalMs, now, calls, lastTick, stableLog, rotationLog, emitLog,
      aborted,
      groupDestroyed, timerBeat>>

vars == <<partition, denoReader, groupVars>>

\* --- the group with a fixed config and its throttles, under every call of
\* the throttles' and the group's lifecycle, with timer callbacks that are on
\* time or one interval late, and idle periods of one second
BytesPerSecondValues == {2, 3, Infinity}
TicksPerSecondValues == {1, 2}

Configs ==
    [bytesPerSecond : BytesPerSecondValues,
     ticksPerSecond : TicksPerSecondValues]

Init ==
    /\ partition = NoPartition
    /\ denoReader = NoReader
    /\ \E options \in Configs : GroupInit(options)

Next ==
    \/ CreateBandwidthThrottle(MaxContentLength)
    \/ \E c \in Throttles, length \in 1..MaxContentLength : Write(c, length)
    \/ \E c \in Throttles : End(c)
    \/ \E c \in Throttles : Abort(c)
    \/ GroupDestroy
    \/ \E delay \in {intervalMs, 2 * intervalMs} : TimerFire(delay)
    \/ PassTime(MsPerSecond)

Spec == Init /\ [][Next]_vars

\* --- a group whose throttles hold more data than the run can drain, with a
\* timer that is never late
SteadyContentLength == 200
SteadyConfigs ==
    { [bytesPerSecond |-> 24, ticksPerSecond |-> 50],
      [bytesPerSecond |-> 7, ticksPerSecond |-> 5],
      [bytesPerSecond |-> 3, ticksPerSecond |-> 4],
      [bytesPerSecond |-> 2, ticksPerSecond |-> 2] }

InitSteady ==
    /\ partition = NoPartition
    /\ denoReader = NoReader
    /\ \E options \in SteadyConfigs : GroupInit(options)

NextSteady ==
    \/ CreateBandwidthThrottle(SteadyContentLength)
    \/ \E c \in Throttles : Write(c, SteadyContentLength)
    \/ TimerFire(intervalMs)

SpecSteady == InitSteady /\ [][NextSteady]_vars

\* --- a group whose throttles have all been created, under a bounded number
\* of writes, ends of input and aborts, with a timer that is never late
Constructed(options) ==
    [config |-> options, throttles |-> [c \in Throttles |-> NoThrottle],
     inFlightRequests |-> <<>>, bandwidthThrottles |-> <<>>,
     clockIntervalId |-> NoTimer, lastTickTime |-> -1,
     tickIndex |-> 0, secondIndex |-> 0, intervals |-> 0, intervalMs |-> 0,
     pushes |-> <<>>, calls |-> <<>>]

RECURSIVE createBandwidthThrottles(_, _)
createBandwidthThrottles(s, c) ==
    IF c > MaxThrottles THEN s
    ELSE createBandwidthThrottles(
             createBandwidthThrottle(s, c, MaxContentLength), c + 1)

AttachedConfigs ==
    { [bytesPerSecond |-> 2, ticksPerSecond |-> 1],
      [bytesPerSecond |-> 3, ticksPerSecond |-> 2] }

InitAttached ==
    /\ partition = NoPartition
    /\ denoReader = NoReader
    /\ \E options \in AttachedConfigs :
          LET s == createBandwidthThrottles(Constructed(options), 1)
          IN  /\ config = s.config
              /\ throttles = s.throttles
              /\ inFlightRequests = s.inFlightRequests
              /\ bandwidthThrottles = s.bandwidthThrottles
              /\ clockIntervalId = s.clockIntervalId
              /\ lastTickTime = s.lastTickTime
              /\ tickIndex = s.tickIndex
              /\ secondIndex = s.secondIndex
              /\ intervals = s.intervals
              /\ intervalMs = s.intervalMs
    /\ now = 0
    /\ calls = 0
    /\ lastTick = NoTick
    /\ stableLog = <<>>
    /\ rotationLog = <<>>
    /\ emitLog = <<>>
    /\ aborted = {}
    /\ groupDestroyed = {}
    /\ timerBeat = FALSE

NextAttached ==
    \/ /\ calls < MaxAttachedCalls
       /\ \E c \in Throttles, length \in 1..MaxContentLength :
              Write(c, length)
    \/ /\ calls < MaxAttachedCalls
       /\ \E c \in Throttles : End(c)
    \/ /\ calls < MaxAttachedCalls
       /\ \E c \in Throttles : Abort(c)
    \/ TimerFire(intervalMs)

SpecAttached == InitAttached /\ [][NextAttached]_vars

\* --- a group that is reconfigured while its throttles are in use, with
\* options that name one field or both, and a timer that is never late
\* (the finite bytesPerSecond of the constructor is one that no configure()
\* call of the run gives)
ConstructedBytesPerSecond == {3, Infinity}
ReconfigureBytesPerSecond == {2, 9, Infinity}
ReconfigureTicksPerSecond == {1, 2}

ReconfigureOptions ==
    {[bytesPerSecond |-> b] : b \in ReconfigureBytesPerSecond}
        \cup {[ticksPerSecond |-> t] : t \in ReconfigureTicksPerSecond}
        \cup {[bytesPerSecond |-> 9, ticksPerSecond |-> 2]}

InitReconfigure ==
    /\ partition = NoPartition
    /\ denoReader = NoReader
    /\ \E options \in [bytesPerSecond : ConstructedBytesPerSecond,
                        ticksPerSecond : ReconfigureTicksPerSecond] :
          GroupInit(assign(DefaultConfig, options))

NextReconfigure ==
    \/ CreateBandwidthThrottle(MaxContentLength)
    \/ \E c \in Throttles, length \in 1..MaxContentLength : Write(c, length)
    \/ \E c \in Throttles : End(c)
    \/ \E options \in ReconfigureOptions : Configure(options)
    \/ TimerFire(intervalMs)

SpecReconfigure == InitReconfigure /\ [][NextReconfigure]_vars

\* --- the calls that a caller makes on a group within one turn of the event
\* loop (no timer callback runs in between), with constructor options and
\* configure() options that hold any numbers, also ones below the documented
\* ranges
AnyBytesPerSecond == {-1, 2, Infinity}
AnyTicksPerSecond == {0, 1}

NoOptions == [field \in {} |-> 0]

AnyOptions ==
    {[bytesPerSecond |-> b] : b \in AnyBytesPerSecond}
        \cup {[ticksPerSecond |-> t] : t \in AnyTicksPerSecond}
        \cup [bytesPerSecond : AnyBytesPerSecond,
              ticksPerSecond : AnyTicksPerSecond]

InitConfigure ==
    /\ partition = NoPartition
    /\ denoReader = NoReader
    /\ \E options \in AnyOptions \cup {NoOptions} :
          GroupInit(assign(DefaultConfig, options))

NextConfigure ==
    \/ CreateBandwidthThrottle(MaxContentLength)
    \/ \E c \in Throttles, length \in 1..MaxContentLength : Write(c, length)
    \/ \E c \in Throttles : End(c)
    \/ \E options \in AnyOptions : Configure(options)

SpecConfigure == InitConfigure /\ [][NextConfigure]_vars

\* --- a group whose bytesPerSecond is reconfigured while its throttles are
\* in use, with a timer that calls back for as long as it runs.
\* processInFlightRequests uses Date.now() only as the difference from
\* lastTickTime, and secondIndex only modulo the number of requests in
\* flight: after each callback the origin of time is moved to lastTickTime
\* and secondIndex is kept modulo a multiple of every such number, so that a
\* clock that runs for ever is a cycle of states. Of the history of the
\* ticks only the rotation log is kept.
RECURSIVE factorial(_)
factorial(n) == IF n <= 1 THEN 1 ELSE n * factorial(n - 1)

RotationPeriod == factorial(MaxThrottles)

TimerFireAtOrigin ==
    /\ intervals > 0
    /\ LET time == now + intervalMs
           s == processInFlightRequests(Cur, time)
       IN  /\ Becomes([s EXCEPT !.lastTickTime = IF hasTicked(s) THEN 0 ELSE @,
                                !.secondIndex = @ % RotationPeriod])
           /\ now' = IF hasTicked(s) THEN time - s.lastTickTime ELSE 0
           /\ rotationLog' = RotationOfTick(s, time)
    /\ lastTick' = NoTick
    /\ stableLog' = <<>>
    /\ emitLog' = <<>>
    /\ timerBeat' = ~timerBeat
    /\ UNCHANGED <<partition, denoReader, calls, aborted, groupDestroyed>>

\* The steps that flip timerBeat are the steps of TimerFireAtOrigin, which
\* can be taken exactly while a setInterval timer is running.
TimerCallback ==
    /\ intervals > 0
    /\ timerBeat' = ~timerBeat

BudgetOptions == {[bytesPerSecond |-> b] : b \in {2, 3, Infinity}}

InitBudget ==
    /\ partition = NoPartition
    /\ denoReader = NoReader
    /\ \E options \in [bytesPerSecond : {2, Infinity},
                        ticksPerSecond : {1, 2}] :
          GroupInit(assign(DefaultConfig, options))

NextBudget ==
    \/ CreateBandwidthThrottle(MaxContentLength)
    \/ \E c \in Throttles, length \in 1..MaxContentLength : Write(c, length)
    \/ \E c \in Throttles : End(c)
    \/ \E options \in BudgetOptions : Configure(options)
    \/ TimerFireAtOrigin

\* the runtime calls back for as long as the timer is running
SpecBudgetFair ==
    InitBudget /\ [][NextBudget]_vars /\ WF_timerBeat(TimerCallback)

\* --- a group with a fixed config whose throttles are written chunks of any
\* length, the empty chunk included (the stream hands every chunk that is
\* written to transform()), with a timer that is never late
NextChunks ==
    \/ \E contentLength \in {0, MaxContentLength} :
           CreateBandwidthThrottle(contentLength)
    \/ \E c \in Throttles, length \in 0..MaxContentLength : Write(c, length)
    \/ \E c \in Throttles : End(c)
    \/ TimerFire(intervalMs)

SpecChunks == Init /\ [][NextChunks]_vars

\* --- a throttled group with one throttle that is written, in one chunk, as
\* many bytes as the group passes in a whole number of seconds, with a timer
\* that is never late
MaxSeconds == 2
SingleConfigs ==
    { [bytesPerSecond |-> 2, ticksPerSecond |-> 1],
      [bytesPerSecond |-> 3, ticksPerSecond |-> 2],
      [bytesPerSecond |-> 7, ticksPerSecond |-> 5],
      [bytesPerSecond |-> 24, ticksPerSecond |-> 50] }

InitSingle ==
    /\ partition = NoPartition
    /\ denoReader = NoReader
    /\ \E options \in SingleConfigs : GroupInit(options)

NextSingle ==
    \/ /\ ~throttles[1].created
       /\ \E seconds \in 1..MaxSeconds :
              CreateBandwidthThrottle(seconds * config.bytesPerSecond)
    \/ /\ throttles[1].pendingBytesCount = 0
       /\ Write(1, throttles[1].contentLength)
    \/ End(1)
    \/ TimerFire(intervalMs)

SpecSingle == InitSingle /\ [][NextSingle]_vars

\* --- a throttled group with two throttles of the same content length that
\* are each written their whole content before the first timer callback, with
\* a timer that is never late
MaxPairBytes == 4
PairConfigs ==
    [bytesPerSecond : {1, 2, 3, 4, 6}, ticksPerSecond : {1, 2, 4}]

InitPair ==
    /\ partition = NoPartition
    /\ denoReader = NoReader
    /\ \E options \in PairConfigs, contentLength \in 1..MaxPairBytes :
          LET s == createBandwidthThrottle(
                       createBandwidthThrottle(Constructed(options), 1,
                                               contentLength),
                       2, contentLength)
          IN  /\ config = s.config
              /\ throttles = s.throttles
              /\ inFlightRequests = s.inFlightRequests
              /\ bandwidthThrottles = s.bandwidthThrottles
              /\ clockIntervalId = s.clockIntervalId
              /\ lastTickTime = s.lastTickTime
              /\ tickIndex = s.tickIndex
              /\ secondIndex = s.secondIndex
              /\ intervals = s.intervals
              /\ intervalMs = s.intervalMs
    /\ now = 0
    /\ calls = 0
    /\ lastTick = NoTick
    /\ stableLog = <<>>
    /\ rotationLog = <<>>
    /\ emitLog = <<>>
    /\ aborted = {}
    /\ groupDestroyed = {}
    /\ timerBeat = FALSE

NextPair ==
    \/ \E c \in {1, 2} :
           /\ throttles[c].pendingBytesCount = 0
           /\ Write(c, throttles[c].contentLength)
    \/ \E c \in {1, 2} : End(c)
    \/ /\ \A c \in {1, 2} : throttles[c].pendingBytesCount > 0
       /\ TimerFire(intervalMs)

SpecPair == InitPair /\ [][NextPair]_vars

\* --- a throttled group with one to MaxThrottles throttles, each written in
\* one chunk, before the first timer callback, the bytes that the whole group
\* passes in MaxRotationSeconds seconds, with a timer that is never late and
\* runs until the throttles have completed
MaxRotationSeconds == 4
RotationConfigs ==
    [bytesPerSecond : {1, 2, 3, 4, 5, 7}, ticksPerSecond : {1, 2, 4}]
        \cup {[bytesPerSecond |-> 24, ticksPerSecond |-> 50]}

RECURSIVE createRotationThrottles(_, _, _, _)
createRotationThrottles(s, c, count, contentLength) ==
    IF c > count THEN s
    ELSE createRotationThrottles(
             createBandwidthThrottle(s, c, contentLength),
             c + 1, count, contentLength)

InitRotation ==
    /\ partition = NoPartition
    /\ denoReader = NoReader
    /\ \E options \in RotationConfigs, count \in Throttles :
          LET s == createRotationThrottles(
                       Constructed(options), 1, count,
                       MaxRotationSeconds * options.bytesPerSecond)
          IN  /\ config = s.config
              /\ throttles = s.throttles
              /\ inFlightRequests = s.inFlightRequests
              /\ bandwidthThrottles = s.bandwidthThrottles
              /\ clockIntervalId = s.clockIntervalId
              /\ lastTickTime = s.lastTickTime
              /\ tickIndex = s.tickIndex
              /\ secondIndex = s.secondIndex
              /\ intervals = s.intervals
              /\ intervalMs = s.intervalMs
    /\ now = 0
    /\ calls = 0
    /\ lastTick = NoTick
    /\ stableLog = <<>>
    /\ rotationLog = <<>>
    /\ emitLog = <<>>
    /\ aborted = {}
    /\ groupDestroyed = {}
    /\ timerBeat = FALSE

NextRotation ==
    \/ \E c \in Throttles :
           /\ throttles[c].pendingBytesCount = 0
           /\ Write(c, throttles[c].contentLength)
    \/ /\ \A c \in Throttles :
              throttles[c].created => throttles[c].pendingBytesCount > 0
       /\ TimerFireAtOrigin

SpecRotation == InitRotation /\ [][NextRotation]_vars

\* --- a throttled group with two throttles that are written chunks of a few
\* lengths, with timer callbacks that are on time or one interval late
MaxProcessBytes == 8
ProcessConfigs ==
    { [bytesPerSecond |-> 5, ticksPerSecond |-> 5],
      [bytesPerSecond |-> 4, ticksPerSecond |-> 2] }

InitProcess ==
    /\ partition = NoPartition
    /\ denoReader = NoReader
    /\ \E options \in ProcessConfigs :
          LET s == createRotationThrottles(Constructed(options), 1, 2,
                                           MaxProcessBytes)
          IN  /\ config = s.config
              /\ throttles = s.throttles
              /\ inFlightRequests = s.inFlightRequests
              /\ bandwidthThrottles = s.bandwidthThrottles
              /\ clockIntervalId = s.clockIntervalId
              /\ lastTickTime = s.lastTickTime
              /\ tickIndex = s.tickIndex
              /\ secondIndex = s.secondIndex
              /\ intervals = s.intervals
              /\ intervalMs = s.intervalMs
    /\ now = 0
    /\ calls = 0
    /\ lastTick = NoTick
    /\ stableLog = <<>>
    /\ rotationLog = <<>>
    /\ emitLog = <<>>
    /\ aborted = {}
    /\ groupDestroyed = {}
    /\ timerBeat = FALSE

NextProcess ==
    \/ \E c \in {1, 2}, length \in {3, MaxProcessBytes} : Write(c, length)
    \/ \E c \in {1, 2} : End(c)
    \/ \E delay \in {intervalMs, 2 * intervalMs} : TimerFire(delay)

SpecProcess == InitProcess /\ [][NextProcess]_vars

\* --- a readerToDenoReader over an underlying reader that delivers the
\* bytes 1, 2, ... in chunks of any lengths (every ReadableStream may enqueue
\* an empty chunk), with a contentLength that is at least their number, read
\* with arrays p of any length from 1
RECURSIVE chunksOf(_, _)
chunksOf(lengths, offset) ==
    IF lengths = <<>> THEN <<>>
    ELSE <<[i \in 1..Head(lengths) |-> offset + i]>>
             \o chunksOf(Tail(lengths), offset + Head(lengths))

Chunkings ==
    {lengths \in UNION {[1..count -> 0..MaxData] : count \in 0..MaxChunks} :
        SumSeq(lengths) <= MaxData}

\* denoReader.read(p) by a caller that keeps what the reads return
Read(pLength) ==
    /\ denoReader.reads < MaxReads
    /\ LET r == read(denoReader, pLength)
       IN  denoReader' =
               [r EXCEPT !.reads = @ + 1,
                         !.pLength = pLength,
                         !.returned = IF r.result = Null THEN @ ELSE @ \o r.p,
                         !.nullReturned = @ \/ r.result = Null]
    /\ UNCHANGED <<partition, groupVars>>

InitReader ==
    /\ partition = NoPartition
    /\ GroupInit(DefaultConfig)
    /\ \E lengths \in Chunkings, spare \in {0, 1} :
          denoReader =
              readerToDenoReader(chunksOf(lengths, 0),
                                 SumSeq(lengths) + spare,
                                 [i \in 1..SumSeq(lengths) |-> i])

NextReader == \E pLength \in 1..MaxPLength : Read(pLength)

SpecReader == InitReader /\ [][NextReader]_vars

\* --- the partitioner, driven by a caller that asks for the parts of one
\* partition index by index
PartitionInit ==
    /\ \E value \in 0..MaxValue, partsCount \in 1..MaxPartsCount :
          partition = [value |-> value, partsCount |-> partsCount,
                       parts |-> <<>>]
    /\ denoReader = NoReader
    /\ GroupInit([bytesPerSecond |-> Infinity, ticksPerSecond |-> 40])

PartitionNextPart ==
    /\ Len(partition.parts) < partition.partsCount
    /\ partition' = [partition EXCEPT !.parts =
           Append(@, getPartitionedIntegerPartAtIndex(
                         partition.value, partition.partsCount, Len(@)))]
    /\ UNCHANGED <<denoReader, groupVars>>

SpecPartition == PartitionInit /\ [][PartitionNextPart]_vars

\* ------------------------------------------------------------- claims

\* C1: in a throttled group the bytes that ticks push downstream within any
\* span of one second never exceed bytesPerSecond, also after the group went
\* idle and was restarted.
C1_RateCeiling ==
    isThrottled(config) => SumBytes(emitLog) <= config.bytesPerSecond

\* C2: the parts of a partition, over all indices 0..partsCount-1, add up to
\* exactly the partitioned value.
C2_PartitionSum ==
    Len(partition.parts) = partition.partsCount
        => SumSeq(partition.parts) = partition.value

\* C3: every part is floor(value/partsCount) or floor(value/partsCount)+1, so
\* two parts of one partition differ by at most 1.
C3_PartitionSpread ==
    \A i \in 1..Len(partition.parts) :
        /\ partition.parts[i] \in
               { partition.value \div partition.partsCount,
                 (partition.value \div partition.partsCount) + 1 }
        /\ \A j \in 1..Len(partition.parts) :
               partition.parts[i] - partition.parts[j] \in {-1, 0, 1}

\* A partition with a remainder whose parts have all been asked for and that
\* holds parts of both values.
C3_Witness ==
    /\ Len(partition.parts) = partition.partsCount
    /\ partition.value % partition.partsCount > 0
    /\ \E i, j \in 1..Len(partition.parts) :
           partition.parts[i] = partition.parts[j] + 1

RECURSIVE SumAll(_)
SumAll(log) == IF log = <<>> THEN 0 ELSE SumSeq(Head(log)) + SumAll(Tail(log))

RECURSIVE SumAt(_, _)
SumAt(log, i) == IF log = <<>> THEN 0 ELSE Head(log)[i] + SumAt(Tail(log), i)

\* C4: with a stable in-flight set and no timer delay, the allowances of any
\* ticksPerSecond consecutive processed ticks add up to exactly bytesPerSecond.
C4_SecondTotal ==
    Len(stableLog) = config.ticksPerSecond
        => SumAll(stableLog) = config.bytesPerSecond

TickOnTime ==
    /\ lastTick # NoTick
    /\ isThrottled(lastTick.config)
    /\ lastTick.multiplier = MsPerSecond

TickTotal ==
    partAt(lastTick.config.bytesPerSecond, lastTick.config.ticksPerSecond,
           lastTick.tickIndex)

C6_ChannelShare ==
    Len(stableLog) = config.ticksPerSecond
        => \A i \in 1..Len(inFlightRequests) :
               SumAt(stableLog, i) \in
                   { config.bytesPerSecond \div Len(inFlightRequests),
                     (config.bytesPerSecond \div Len(inFlightRequests)) + 1 }

\* C7: the runtime runs at most one clock timer for the group, and it runs
\* one exactly when the in-flight set is not empty.
C7_OneClockIffInFlight ==
    /\ intervals <= 1
    /\ (intervals = 1) <=> (inFlightRequests # <<>>)
    /\ (clockIntervalId # NoTimer) <=> (intervals = 1)

\* The clock runs for a channel in flight after another channel, which had
\* been written to, was stopped and destroyed.
C7_Witness ==
    /\ intervals = 1
    /\ inFlightRequests # <<>>
    /\ \E c \in Throttles :
          /\ throttles[c].destroyed
          /\ throttles[c].pendingBytesCount > 0
          /\ indexOf(inFlightRequests, c) = -1

\* C8: abort() of a channel that is not in the in-flight set leaves the
\* in-flight set, the clock and the tick and second counters as they were.
C8_StopOfAbsentIsNoOp ==
    [][\A c \in Throttles :
          (Abort(c) /\ indexOf(inFlightRequests, c) = -1)
              => /\ inFlightRequests' = inFlightRequests
                 /\ clockIntervalId' = clockIntervalId
                 /\ intervals' = intervals
                 /\ tickIndex' = tickIndex
                 /\ secondIndex' = secondIndex]_vars

\* C9: group.destroy() destroys every throttle that was created by the group
\* and not yet destroyed.
C9_DestroyDestroysAll ==
    [][GroupDestroy
          => \A c \in Throttles :
                 (throttles[c].created /\ ~throttles[c].destroyed)
                     => throttles'[c].destroyed]_vars

\* C10: after group.destroy() with channels in flight no clock timer is
\* running and the in-flight set is empty.
C10_DestroyHaltsClock ==
    [][(GroupDestroy /\ inFlightRequests # <<>>)
          => /\ intervals' = 0
             /\ clockIntervalId' = NoTimer
             /\ inFlightRequests' = <<>>]_vars

\* A channel whose teardown has happened: it completed all its data, abort()
\* was called on it, or it was attached when group.destroy() was called.
TornDown(c) ==
    \/ throttles[c].doneResolved
    \/ c \in aborted
    \/ c \in groupDestroyed

\* C11: a write to a channel that has been torn down (by completing, by
\* abort() or by group.destroy()) buffers no bytes, signals no start and
\* leaves the in-flight set and the clock as they were.
C11_WriteAfterDestroyFails ==
    [][\A c \in Throttles, length \in 1..MaxContentLength :
          (Write(c, length) /\ TornDown(c))
              => /\ throttles' = throttles
                 /\ inFlightRequests' = inFlightRequests
                 /\ clockIntervalId' = clockIntervalId]_vars

\* C12: a channel abort() was called on emits no further bytes: its read
\* cursor, and so the number of bytes it has emitted, never changes again.
C12_AbortedEmitsNothing ==
    [][\A c \in Throttles :
          c \in aborted
              => /\ throttles'[c].pendingBytesReadIndex
                       = throttles[c].pendingBytesReadIndex
                 /\ emitted(throttles'[c]) = emitted(throttles[c])]_vars

\* A tick gave allowances to another channel after abort() was called on a
\* channel that was in flight with unprocessed bytes, which it still holds.
C12_Witness ==
    /\ lastTick # NoTick
    /\ lastTick.calls # <<>>
    /\ \E c \in aborted :
          /\ throttles[c].isInFlight
          /\ emitted(throttles[c]) < throttles[c].pendingBytesCount

\* C13: every processed tick gives an allowance to exactly the channels of
\* the in-flight set, each once; every channel that signalled start and was
\* neither aborted nor completed takes part, and no aborted channel does.
C13_TickSplitsOverInFlight ==
    lastTick # NoTick =>
        /\ Len(lastTick.calls) = Len(lastTick.before)
        /\ \A k \in 1..Len(lastTick.calls) :
               /\ lastTick.calls[k].ch = lastTick.before[k]
               /\ lastTick.calls[k].ch \notin aborted
        /\ \A c \in Throttles :
               (throttles[c].isInFlight /\ c \notin aborted
                                        /\ c \notin groupDestroyed)
                   => \E k \in 1..Len(lastTick.calls) :
                          lastTick.calls[k].ch = c

\* C14: in a throttled group no byte written to a channel before the end of
\* its input is lost (the channel not having been aborted or torn down by the
\* group, every write is buffered), and a channel that has completed has
\* emitted exactly the bytes written to it.
C14_WrittenBytesAreEmitted ==
    [][isThrottled(config) =>
          /\ \A c \in Throttles, length \in 1..MaxContentLength :
                 (Write(c, length) /\ ~throttles[c].ended
                                   /\ c \notin aborted
                                   /\ c \notin groupDestroyed)
                     => throttles'[c].pendingBytesCount
                            = throttles[c].pendingBytesCount + length
          /\ \A c \in Throttles :
                 throttles'[c].doneResolved
                     => emitted(throttles'[c])
                            = throttles'[c].pendingBytesCount]_vars

\* C15: a throttled channel is destroyed only after its input has ended, or
\* by abort() or by the group's destroy(); until then a write is accepted.
C15_CompletesOnlyAfterEnd ==
    \A c \in Throttles :
        (throttles[c].destroyed \/ throttles[c].doneResolved)
            => \/ throttles[c].ended
               \/ c \in aborted
               \/ c \in groupDestroyed
\* --- reconfiguration
\* the interval that a clock started under the config in force would have
intervalOf(cfg) ==
    Max(1, (MsPerSecond \div cfg.ticksPerSecond) \div ClockDivisor)

\* c is in flight and holds bytes that it has not emitted
InFlightWithPendingBytes(c) ==
    /\ indexOf(inFlightRequests, c) # -1
    /\ emitted(throttles[c]) < throttles[c].pendingBytesCount

\* c has emitted every byte written to it and has completed
EmittedAllAndCompleted(c) ==
    /\ emitted(throttles[c]) = throttles[c].pendingBytesCount
    /\ throttles[c].doneResolved

\* C16: whatever valid bytesPerSecond the group is reconfigured to, a channel
\* that is in flight with pending bytes eventually emits every byte written
\* to it and completes.
C16_ReconfigureDoesNotInterrupt ==
    \A c \in Throttles :
        InFlightWithPendingBytes(c) ~> EmittedAllAndCompleted(c)

\* C17: a configure() call puts the given values into the config at once,
\* and every tick that is processed afterwards takes each allowance from the
\* values in force: the allowance of a channel lies between the rounded-down
\* and the rounded-up share of the current bytesPerSecond over the channels
\* in flight and the current ticksPerSecond (before the delay multiplier).
C17_TickUsesConfigInForce ==
    /\ [][\A options \in ReconfigureOptions :
              Configure(options) =>
                  \A field \in DOMAIN options :
                      config'[field] = options[field]]_vars
    /\ [](lastTick # NoTick /\ isThrottled(config) =>
              \A k \in 1..Len(lastTick.calls) :
                  LET count == lastTick.calls[k].count
                      low == (config.bytesPerSecond \div count)
                                 \div config.ticksPerSecond
                      high == Ceil(Ceil(config.bytesPerSecond, count),
                                   config.ticksPerSecond)
                      bytes == lastTick.calls[k].bytes
                  IN  /\ lastTick.config = config
                      /\ low <= bytes
                      /\ bytes <= high)

\* a tick was processed, with a channel in flight, after ticksPerSecond was
\* changed under a running clock
C17_Witness ==
    /\ lastTick # NoTick
    /\ lastTick.calls # <<>>
    /\ isThrottled(config)
    /\ intervals > 0
    /\ intervalMs # intervalOf(config)

\* C18: configure(options) sets the fields that options holds and keeps the
\* others, and leaves the in-flight set, the channels (buffer, read cursor
\* and flags), tickIndex, secondIndex, lastTickTime and the clock's timer as
\* they were.
C18_ConfigureMergesAndFrames ==
    [][\A options \in ReconfigureOptions :
          Configure(options) =>
              /\ \A field \in DOMAIN config :
                     config'[field] = IF field \in DOMAIN options
                                      THEN options[field] ELSE config[field]
              /\ UNCHANGED <<throttles, inFlightRequests, bandwidthThrottles,
                             tickIndex, secondIndex, lastTickTime,
                             clockIntervalId, intervals, intervalMs>>]_vars

\* ticksPerSecond was changed under a running clock, in the middle of a
\* second and with a channel that is partly drained, by a configure() that
\* did not give bytesPerSecond: it still has the constructor's value
C18_Witness ==
    /\ intervals > 0
    /\ intervalMs # intervalOf(config)
    /\ config.bytesPerSecond \in ConstructedBytesPerSecond \ {Infinity}
    /\ tickIndex > 0
    /\ lastTick = NoTick
    /\ \E c \in Throttles :
           /\ indexOf(inFlightRequests, c) # -1
           /\ emitted(throttles[c]) > 0
           /\ emitted(throttles[c]) < throttles[c].pendingBytesCount

\* C19: the config never holds a ticksPerSecond below 1 or a negative
\* bytesPerSecond: the constructor and configure() refuse such options.
C19_ConfigIsValid ==
    /\ config.ticksPerSecond >= 1
    /\ config.bytesPerSecond >= 0

\* --- no throttling
\* a write of `length` bytes to c that the stream accepts, under an
\* unbounded bytesPerSecond, leaves nothing of c pending
WriteIsPassedThrough(c) ==
    \A length \in 1..MaxContentLength :
        Write(c, length) /\ ~writeIsRefused(Cur, c) /\ ~isThrottled(config) =>
            /\ throttles'[c].pendingBytesCount
                   = throttles[c].pendingBytesCount + length
            /\ emitted(throttles'[c]) = throttles'[c].pendingBytesCount
            /\ now' = now

\* the end of c's input has stopped and destroyed c
EndHasStoppedAndDestroyed(c) ==
    /\ throttles'[c].destroyed
    /\ ~throttles'[c].isInFlight
    /\ indexOf(inFlightRequests', c) = -1
    /\ indexOf(bandwidthThrottles', c) = -1

EndedWithNoData(c) ==
    /\ throttles[c].ended
    /\ throttles[c].pendingBytesCount = 0

C21_NoDataNeverInFlight ==
    /\ \A c \in Throttles :
           EndedWithNoData(c) =>
               /\ ~throttles[c].isInFlight
               /\ indexOf(inFlightRequests, c) = -1
    /\ (\A c \in Throttles : throttles[c].created => EndedWithNoData(c)) =>
           intervals = 0

\* --- durations
\* the tick that the last step processed was the last tick of a second
EndsSecond(tick) == tick.tickIndex = tick.config.ticksPerSecond - 1

\* C22: a single channel that holds k seconds' worth of bytes has emitted
\* exactly m * bytesPerSecond bytes after the m-th full second of ticks
\* (m <= k), and the tick that completes it is a tick of the k-th second.
C22_SingleChannelDuration ==
    lastTick # NoTick /\ lastTick.before = <<1>> =>
        LET seconds == throttles[1].contentLength \div config.bytesPerSecond
        IN  /\ EndsSecond(lastTick) =>
                   emitted(throttles[1])
                       = (lastTick.secondIndex + 1) * config.bytesPerSecond
            /\ lastTick.after = <<>> =>
                   /\ lastTick.secondIndex = seconds - 1
                   /\ emitted(throttles[1]) = throttles[1].contentLength

\* C23: of two channels that started in the same tick with equal byte
\* counts, none has completed at the end of a second of ticks unless the
\* other has too: both complete during the same second.
BothOrNeitherCompleted ==
    lastTick # NoTick /\ EndsSecond(lastTick) =>
        (throttles[1].doneResolved <=> throttles[2].doneResolved)

C23_PairCompletesInSameSecond == BothOrNeitherCompleted

\* C23 as amended: the same, for a bytesPerSecond that divides evenly over
\* the two channels.
C23_PairCompletesInSameSecondEven ==
    config.bytesPerSecond % 2 = 0 => BothOrNeitherCompleted

\* with a bytesPerSecond that divides evenly, both channels have completed
\* during the second second of ticks
C23_Witness ==
    /\ config.bytesPerSecond % 2 = 0
    /\ lastTick # NoTick
    /\ EndsSecond(lastTick)
    /\ lastTick.secondIndex = 1
    /\ Len(lastTick.before) = 2
    /\ throttles[1].doneResolved
    /\ throttles[2].doneResolved
    /\ throttles[1].contentLength = throttles[2].contentLength

\* --- the scheduler's loop
\* the channels that process() was called on by the tick that the last step
\* processed, in the order of the calls
Processed(tick) == [k \in 1..Len(tick.calls) |-> tick.calls[k].ch]

\* C24: a channel that has signalled stop, by completing or by abort(), is
\* not in the in-flight set, and a tick calls process() only on channels that
\* were in the in-flight set when the tick began and have not stopped since:
\* on none that was aborted, and on none a second time.
C24_ProcessOnlyInFlight ==
    /\ \A c \in Throttles :
           indexOf(inFlightRequests, c) # -1 =>
               /\ ~throttles[c].doneResolved
               /\ c \notin aborted
    /\ lastTick # NoTick =>
           \A k \in 1..Len(lastTick.calls) :
               /\ indexOf(lastTick.before, Processed(lastTick)[k]) # -1
               /\ Processed(lastTick)[k] \notin aborted
               /\ \A j \in 1..(k - 1) :
                      Processed(lastTick)[j] # Processed(lastTick)[k]

\* a tick has completed a channel, which left the in-flight set, and has
\* then called process() on the channel after it
C24_Witness ==
    /\ lastTick # NoTick
    /\ Len(lastTick.calls) >= 2
    /\ throttles[Processed(lastTick)[1]].doneResolved
    /\ indexOf(lastTick.after, Processed(lastTick)[1]) = -1
    /\ indexOf(lastTick.after, Processed(lastTick)[2]) # -1

\* --- readerToDenoReader
\* C25: the non-null results of the reads so far are, in order, the first
\* bytes of the underlying reader, each result holds at least one and at
\* most p.length bytes, a read returns null only when every byte that the
\* underlying reader has delivered has been returned, and no byte is missing
\* once the underlying reader is exhausted and a read returns null.
C25_ReadsReturnBytesInOrder ==
    /\ Len(denoReader.returned) <= Len(denoReader.data)
    /\ denoReader.returned
           = SubSeq(denoReader.data, 1, Len(denoReader.returned))
    /\ denoReader.reads > 0 /\ denoReader.result # Null =>
           /\ denoReader.result = Len(denoReader.p)
           /\ denoReader.result >= 1
           /\ denoReader.result <= denoReader.pLength
    /\ denoReader.reads > 0 /\ denoReader.result = Null =>
           /\ Len(denoReader.returned) = denoReader.bufferEndIndex
           /\ denoReader.reader = <<>> =>
                  denoReader.returned = denoReader.data

\* the underlying reader has delivered its bytes in more than one chunk, with
\* an array p shorter than a chunk, and all of them have been returned
C25_Witness ==
    /\ denoReader.reads >= 3
    /\ denoReader.result = Null
    /\ denoReader.reader = <<>>
    /\ Len(denoReader.data) = MaxData
    /\ denoReader.returned = denoReader.data
    /\ denoReader.contentLength > Len(denoReader.data)

\* C26: a read returns null when contentLength is 0, when contentLength
\* bytes have been returned, or when the underlying reader has ended and no
\* buffered byte is unread; it does not return null while a buffered byte is
\* unread; and after a read has returned null every read returns null.
C26_NullIsEndOfFile ==
    [][\A pLength \in 1..MaxPLength :
          Read(pLength) =>
              /\ ( \/ denoReader.contentLength = 0
                   \/ Len(denoReader.returned) >= denoReader.contentLength
                   \/ /\ denoReader.reader = <<>>
                      /\ denoReader.bufferReadStartIndex
                             = denoReader.bufferEndIndex )
                     => denoReader'.result = Null
              /\ denoReader.bufferReadStartIndex < denoReader.bufferEndIndex
                     => denoReader'.result # Null
              /\ denoReader.nullReturned => denoReader'.result = Null]_vars

\* C27: a timer callback that runs while the group is unthrottled makes no
\* process() call and so asks the partitioner for no part of an unbounded
\* value: an unthrottled channel is drained by its own writes only.
C27_UnthrottledTickBypassesPartitioning ==
    ~isThrottled(lastTick.config) => lastTick.calls = <<>>

\* the number of process() calls that the tick made on channel c
CallsOn(tick, c) ==
    Cardinality({k \in 1..Len(tick.calls) : tick.calls[k].ch = c})

\* C28: a tick calls process() exactly once on every channel that is in the
\* in-flight set when the tick begins and is still in it when the tick ends,
\* also when a channel before it in the set completed during the tick and
\* left the set.
C28_InFlightProcessedExactlyOnce ==
    lastTick # NoTick =>
        \A c \in Throttles :
            ( /\ indexOf(lastTick.before, c) # -1
              /\ indexOf(lastTick.after, c) # -1 )
                => CallsOn(lastTick, c) = 1

\* a tick over three channels in flight has completed the second, which
\* left the set, and the first and the third are still in flight
C28_Witness ==
    /\ lastTick # NoTick
    /\ Len(lastTick.before) = 3
    /\ throttles[lastTick.before[2]].doneResolved
    /\ lastTick.after = <<lastTick.before[1], lastTick.before[3]>>
    /\ CallsOn(lastTick, lastTick.before[3]) = 1

\* --- the rotation of the shares
\* the allowance of the channel at position i over the ticks of the log
RECURSIVE AllowanceAt(_, _)
AllowanceAt(log, i) ==
    IF log = <<>> THEN 0
    ELSE Head(log).bytes[i] + AllowanceAt(Tail(log), i)

\* the rotation log holds the ticks of as many full seconds as there are
\* channels in flight
HoldsFullSeconds ==
    /\ inFlightRequests # <<>>
    /\ Len(rotationLog) = Len(inFlightRequests) * config.ticksPerSecond
    /\ rotationLog[1].tickIndex = 0

\* C29: when the in-flight set has been the same n channels over n
\* consecutive full seconds of on-time ticks in a throttled group, the
\* allowances of each channel over these seconds add up to bytesPerSecond.
C29_RotationGivesEachBytesPerSecond ==
    HoldsFullSeconds =>
        \A i \in 1..Len(inFlightRequests) :
            AllowanceAt(rotationLog, i) = config.bytesPerSecond

\* --- the tick and second counters
\* the step is a timer callback that is due and so processes a tick
DueTick == intervals > 0 /\ now' > now /\ isDue(Cur, now')

\* C30: a due tick after which the clock is running has added one to
\* tickIndex, and when that makes tickIndex equal to ticksPerSecond it has
\* set tickIndex to 0 and added one to secondIndex; a step before and after
\* which the clock is running changes secondIndex only if it is such a tick
\* that has wrapped tickIndex.
C30_TickAndSecondCounters ==
    [][/\ (DueTick /\ clockIntervalId' # NoTimer) =>
              IF tickIndex + 1 = config.ticksPerSecond
              THEN tickIndex' = 0 /\ secondIndex' = secondIndex + 1
              ELSE tickIndex' = tickIndex + 1 /\ secondIndex' = secondIndex
       /\ ( /\ clockIntervalId # NoTimer
            /\ clockIntervalId' # NoTimer
            /\ secondIndex' # secondIndex )
              => DueTick /\ tickIndex + 1 = config.ticksPerSecond]_vars

\* with two ticks per second the clock has counted a tick within a second
\* and then a full second, and is running
C30_Witness ==
    /\ clockIntervalId # NoTimer
    /\ config.ticksPerSecond = 2
    /\ lastTick # NoTick
    /\ lastTick.tickIndex = 1
    /\ lastTick.secondIndex = 0
    /\ tickIndex = 0
    /\ secondIndex = 1

\* --- the states of the clock
\* C31: whenever no clock timer is running, the in-flight set is empty and
\* tickIndex and secondIndex are 0, also right after a tick that completed
\* the last channel in flight.
C31_IdleIsAtRest ==
    clockIntervalId = NoTimer =>
        /\ inFlightRequests = <<>>
        /\ tickIndex = 0
        /\ secondIndex = 0

\* a tick that began after the clock had counted a tick has completed the
\* last channel in flight and stopped the clock
C31_Witness ==
    /\ clockIntervalId = NoTimer
    /\ lastTick # NoTick
    /\ lastTick.before # <<>>
    /\ lastTick.after = <<>>
    /\ lastTick.tickIndex + lastTick.secondIndex > 0

\* --- the elapsed-time check of the timer callback
\* the step is a timer callback that comes, in a throttled group that has
\* processed a tick, less than tickDurationMs after the last processed tick
EarlyCallback ==
    /\ intervals > 0
    /\ now' > now
    /\ isThrottled(config)
    /\ lastTickTime > -1
    /\ (now' - lastTickTime) * config.ticksPerSecond < MsPerSecond

\* C32: such a callback calls process() on no channel and leaves tickIndex,
\* secondIndex, lastTickTime, the in-flight set and the channels unchanged.
C32_EarlyCallbackIsNoOp ==
    [][EarlyCallback =>
          /\ lastTick'.calls = <<>>
          /\ UNCHANGED <<tickIndex, secondIndex, lastTickTime,
                         inFlightRequests, throttles, clockIntervalId>>]_vars

\* the clock has counted a tick and a callback has since come before the
\* next tick was due
C32_Witness ==
    /\ clockIntervalId # NoTimer
    /\ isThrottled(config)
    /\ tickIndex + secondIndex >= 1
    /\ now > lastTickTime
    /\ (now - lastTickTime) * config.ticksPerSecond < MsPerSecond
    /\ inFlightRequests # <<>>

\* --- the delay multiplier
\* the step is a timer callback that processes a tick
ProcessedTick == DueTick /\ lastTick' # NoTick

\* C33: a tick that is processed e ms after the last processed tick, with
\* e >= tickDurationMs, calls process() on every channel with the channel's
\* nominal allowance times e / tickDurationMs; the very first tick and a tick
\* that is exactly on time call it with the nominal allowance, and no tick
\* with less (maxBytesToProcess is in units of 1/MsPerSecond byte).
C33_AllowanceIsScaledByDelay ==
    [][ProcessedTick =>
          \A k \in 1..Len(lastTick'.calls) :
              LET call == lastTick'.calls[k]
                  e == now' - lastTickTime
              IN  /\ (lastTickTime > -1
                         /\ e * config.ticksPerSecond >= MsPerSecond)
                        => call.maxBytesToProcess
                               = call.bytes * e * config.ticksPerSecond
                  /\ (lastTickTime = -1
                         \/ e * config.ticksPerSecond = MsPerSecond)
                        => call.maxBytesToProcess = call.bytes * MsPerSecond
                  /\ call.maxBytesToProcess >= call.bytes * MsPerSecond]_vars

\* a late tick has called process() with more than a nominal allowance that
\* is not zero
C33_Witness ==
    /\ lastTick # NoTick
    /\ \E k \in 1..Len(lastTick.calls) :
          /\ lastTick.calls[k].bytes > 0
          /\ lastTick.calls[k].maxBytesToProcess
                 > lastTick.calls[k].bytes * MsPerSecond

\* --- the in-flight set
\* the array without every occurrence of the channel c
Without(array, c) == SelectSeq(array, LAMBDA x : x # c)

\* the channels of a not in b, in the order of a
Kept(a, b) == SelectSeq(a, LAMBDA x : indexOf(b, x) # -1)

\* C34: createBandwidthThrottle() and group.destroy() leave the in-flight
\* set as it is; a write leaves it as it is or appends the written channel at
\* its end; abort() and end() of a channel remove at most that channel; a
\* tick removes only channels that it has completed; and the channels that
\* stay keep their order.
C34_InFlightChangesBySignals ==
    [][/\ (CreateBandwidthThrottle(MaxContentLength) \/ GroupDestroy)
              => inFlightRequests' = inFlightRequests
       /\ \A c \in Throttles :
              /\ (\E length \in 1..MaxContentLength : Write(c, length))
                     => inFlightRequests' \in
                            {inFlightRequests, Append(inFlightRequests, c)}
              /\ (Abort(c) \/ End(c))
                     => inFlightRequests' \in
                            {inFlightRequests, Without(inFlightRequests, c)}
       /\ now' # now =>
              /\ \A c \in Throttles :
                     ( /\ indexOf(inFlightRequests, c) # -1
                       /\ indexOf(inFlightRequests', c) = -1 )
                         => ( /\ ~throttles[c].doneResolved
                              /\ throttles'[c].doneResolved )
              /\ inFlightRequests' = Kept(inFlightRequests, inFlightRequests')
      ]_vars

\* --- BandwidthThrottle.process
\* C35: a call process(maxBytes) of a tick pushes min(maxBytes, the number
\* of bytes buffered and not yet pushed) bytes, so never more than maxBytes,
\* and moves the read cursor by the number of bytes it has pushed
\* (maxBytesToProcess and advance are in units of 1/MsPerSecond byte).
C35_ProcessPushesUpToMax ==
    \A k \in 1..Len(lastTick.calls) :
        LET call == lastTick.calls[k]
        IN  /\ call.pushed * MsPerSecond
                   = Min(call.maxBytesToProcess, call.pending * MsPerSecond)
            /\ call.pushed * MsPerSecond <= call.maxBytesToProcess
            /\ call.advance = call.pushed * MsPerSecond

Elements(array) == {array[k] : k \in 1..Len(array)}

\* C38: bandwidthThrottles holds, once each, exactly the channels that the
\* group has created and that have not been destroyed.
C38_RegistryHoldsTheLiving ==
    /\ Elements(bandwidthThrottles)
           = {c \in Throttles :
                  throttles[c].created /\ ~throttles[c].destroyed}
    /\ Cardinality(Elements(bandwidthThrottles)) = Len(bandwidthThrottles)

\* C39: no channel is in the in-flight set more than once.
C39_InFlightOnce ==
    \A j, k \in 1..Len(inFlightRequests) :
        inFlightRequests[j] = inFlightRequests[k] => j = k

\* the only two calls so far were writes to the first channel, which is in
\* flight once
C39_Witness ==
    /\ calls = 2
    /\ inFlightRequests = <<1>>
    /\ throttles[1].pendingBytesCount = 2
    /\ ~throttles[1].ended
    /\ ~throttles[1].destroyed
    /\ \A c \in Throttles \ {1} :
           /\ throttles[c].pendingBytesCount = 0
           /\ ~throttles[c].ended
           /\ ~throttles[c].destroyed

\* --- the read cursor
\* C40: every step leaves every channel with a read cursor that is at least
\* 0 and at most the number of bytes written to the channel, and lowers
\* neither of the two (pendingBytesReadIndex is in units of 1/MsPerSecond
\* byte).
C40_CursorWithinWritten ==
    [][\A c \in Throttles :
          /\ 0 <= throttles'[c].pendingBytesReadIndex
          /\ throttles'[c].pendingBytesReadIndex
                 <= throttles'[c].pendingBytesCount * MsPerSecond
          /\ emitted(throttles'[c]) <= throttles'[c].pendingBytesCount
          /\ throttles[c].pendingBytesReadIndex
                 <= throttles'[c].pendingBytesReadIndex
          /\ throttles[c].pendingBytesCount
                 <= throttles'[c].pendingBytesCount]_vars

\* a tick has pushed a part of the bytes written to a channel, which is in
\* flight with the rest
C40_Witness ==
    \E c \in Throttles :
        /\ indexOf(inFlightRequests, c) # -1
        /\ 0 < throttles[c].pendingBytesReadIndex
        /\ throttles[c].pendingBytesReadIndex
               < throttles[c].pendingBytesCount * MsPerSecond
        /\ lastTick.calls # <<>>

====
